---- MODULE Spec2Model ----
(***************************************************************************)
(* Model of the web package of Tatch-AI/orq:                               *)
(*   - the DELETE /api/sessions/{id} proxy handler (route.ts),             *)
(*   - the session list reconciler of the sidebar (session-sidebar.tsx),   *)
(*   - the session creation form (session/new/page.tsx).                   *)
(* Text that the code takes apart (search queries, titles, repository      *)
(* names) is a sequence of one-character strings; text that is only passed *)
(* on or compared (error messages, bodies) is a TLA+ string.               *)
(***************************************************************************)
EXTENDS Integers, Sequences, FiniteSets, TLC

VARIABLES
    dreq,              \* DELETE handler: one record per request
    sessions,          \* sidebar: useState<SessionItem[]>
    loading,           \* sidebar: useState(false)
    searchQuery,       \* sidebar: useState("")
    activeSessions,    \* sidebar: useMemo result, first list
    inactiveSessions,  \* sidebar: useMemo result, second list
    serverSessions,    \* the session collection GET /api/sessions answers with
    selectedRepo,      \* form: useState<string>("")
    title,             \* form: useState("")
    selectedModel,     \* form: useState("claude-haiku-4-5"), kept at its default
    error,             \* form: useState("")
    creating,          \* form: useState(false)
    route,             \* form: last argument of router.push, NoRoute before
    freq,              \* form: one record per handleSubmit call awaiting I/O
    lastBody           \* form: body of the most recent POST /api/sessions

vars == <<dreq, sessions, loading, searchQuery, activeSessions, inactiveSessions,
          serverSessions, selectedRepo, title, selectedModel, error, creating,
          route, freq, lastBody>>

deleteVars == <<dreq>>
sidebarVars == <<sessions, loading, searchQuery, activeSessions, inactiveSessions,
                 serverSessions>>
formVars == <<selectedRepo, title, selectedModel, error, creating, route, freq,
              lastBody>>

(***************************************************************************)
(* Bounds.                                                                 *)
(***************************************************************************)
MaxDeletes == 2     \* DELETE requests handled (possibly interleaved)
MaxSessions == 3    \* length of the fetched session collection
MaxInFlight == 2    \* handleSubmit calls awaiting I/O at once

(***************************************************************************)
(* JavaScript truthiness of a string, as used by `!x` and `x || y`.        *)
(***************************************************************************)
Truthy(s) == s # ""

Or(a, b) == IF Truthy(a) THEN a ELSE b

(***************************************************************************)
(* DELETE /api/sessions/{id}  (route.ts)                                   *)
(***************************************************************************)
SessionIds == {"s1", "s2"}

\* getServerSession(): null, a session without accessToken, or one with it.
ServerSessions ==
    { [present |-> FALSE, accessToken |-> ""],
      [present |-> TRUE,  accessToken |-> ""],
      [present |-> TRUE,  accessToken |-> "tok"] }

NoSession == [present |-> FALSE, accessToken |-> ""]

\* Responses of the control plane: a status and a body text.
UpstreamStatuses == {200, 404, 500}
UpstreamBodies == {"", "not found", "{\"deleted\":true}"}
UpstreamResponses == [status : UpstreamStatuses, body : UpstreamBodies]
NoUpstream == [status |-> 0, body |-> ""]

\* Response.ok
ResponseOk(r) == r.status \in 200..299

\* Texts response.json() can parse; it throws on the others.
ValidJson == {"{\"deleted\":true}"}

\* NextResponse.json(body, {status}): body is <<"error", message>> for
\* {error: message} and <<"data", text>> for a relayed JSON document.
JsonResponse(st, body) == [status |-> st, body |-> body]
NoResponse == [status |-> 0, body |-> <<"none", "">>]

UnauthorizedResponse == JsonResponse(401, <<"error", "Unauthorized">>)

\* Mutant of UpstreamErrorResponse: the upstream status is replaced by 500.
UpstreamErrorAs500(r) ==
    JsonResponse(500, <<"error", Or(r.body, "Failed to delete session")>>)

\* Lines 24-28.
UpstreamErrorResponse(r) ==
    JsonResponse(r.status, <<"error", Or(r.body, "Failed to delete session")>>)

RelayResponse(r) == JsonResponse(200, <<"data", r.body>>)

TransportErrorResponse == JsonResponse(500, <<"error", "Failed to delete session">>)

IdleDelete ==
    [pc |-> "idle", id |-> "s1", session |-> NoSession, calls |-> 0,
     path |-> "", upstream |-> NoUpstream, response |-> NoResponse]

\* A request arrives; the handler awaits getServerSession.
DeleteBegin(i, id) ==
    /\ dreq[i].pc = "idle"
    /\ dreq' = [dreq EXCEPT ![i].pc = "auth", ![i].id = id]
    /\ UNCHANGED <<sidebarVars, formVars>>

\* Mutant of Authorized: any session counts, with or without accessToken.
AuthorizedAnySession(s) == s.present

\* Line 12: session?.accessToken is truthy.
Authorized(s) == s.present /\ Truthy(s.accessToken)

\* Lines 11-21: the session check, then the call of controlPlaneFetch.
DeleteAuth(i, s) ==
    /\ dreq[i].pc = "auth"
    /\ IF ~Authorized(s)
         THEN dreq' = [dreq EXCEPT ![i].pc = "done", ![i].session = s,
                                   ![i].response = UnauthorizedResponse]
         ELSE dreq' = [dreq EXCEPT ![i].pc = "fetch", ![i].session = s,
                                   ![i].calls = @ + 1,
                                   ![i].path = dreq[i].id]
    /\ UNCHANGED <<sidebarVars, formVars>>

\* controlPlaneFetch resolves with a response: lines 23 and 31 await its body.
DeleteFetchResolve(i, r) ==
    /\ dreq[i].pc = "fetch"
    /\ dreq' = [dreq EXCEPT ![i].pc = "body", ![i].upstream = r]
    /\ UNCHANGED <<sidebarVars, formVars>>

\* Mutant of DeleteFetchReject: a rejected call is made once more before the
\* handler gives up.
DeleteFetchRejectRetry(i) ==
    /\ dreq[i].pc = "fetch"
    /\ IF dreq[i].calls < 2
         THEN dreq' = [dreq EXCEPT ![i].calls = @ + 1]
         ELSE dreq' = [dreq EXCEPT ![i].pc = "done",
                                   ![i].response = TransportErrorResponse]
    /\ UNCHANGED <<sidebarVars, formVars>>

\* controlPlaneFetch rejects: lines 33-35.
DeleteFetchReject(i) ==
    /\ dreq[i].pc = "fetch"
    /\ dreq' = [dreq EXCEPT ![i].pc = "done",
                            ![i].response = TransportErrorResponse]
    /\ UNCHANGED <<sidebarVars, formVars>>

\* Mutant of DeleteResult: the body of an ok response is relayed unparsed.
DeleteResultUnparsed(r) ==
    IF ~ResponseOk(r) THEN UpstreamErrorResponse(r) ELSE RelayResponse(r)

\* Lines 23-36 once the body is read.
DeleteResult(r) ==
    IF ~ResponseOk(r)
      THEN UpstreamErrorResponse(r)
      ELSE IF r.body \in ValidJson
             THEN RelayResponse(r)
             ELSE TransportErrorResponse

DeleteBody(i) ==
    /\ dreq[i].pc = "body"
    /\ dreq' = [dreq EXCEPT ![i].pc = "done",
                            ![i].response = DeleteResult(dreq[i].upstream)]
    /\ UNCHANGED <<sidebarVars, formVars>>

InitDelete == dreq = [i \in 1..MaxDeletes |-> IdleDelete]

NextDelete ==
    \E i \in 1..MaxDeletes :
        \/ \E id \in SessionIds : DeleteBegin(i, id)
        \/ \E s \in ServerSessions : DeleteAuth(i, s)
        \/ \E r \in UpstreamResponses : DeleteFetchResolve(i, r)
        \/ DeleteFetchReject(i)
        \/ DeleteBody(i)

(***************************************************************************)
(* Session list reconciler  (session-sidebar.tsx)                          *)
(***************************************************************************)
\* A title that is null.
Null == <<"null">>

\* String.prototype.toLowerCase on the characters the model uses.
LowerChar(c) ==
    CASE c = "A" -> "a"
      [] c = "B" -> "b"
      [] OTHER -> c

ToLowerCase(s) == [k \in 1..Len(s) |-> LowerChar(s[k])]

\* String.prototype.includes
Includes(hay, needle) ==
    \E k \in 0..(Len(hay) - Len(needle)) :
        SubSeq(hay, k + 1, k + Len(needle)) = needle

\* `${session.repoOwner}/${session.repoName}`
RepoString(s) == s.repoOwner \o <<"/">> \o s.repoName

\* session.title?.toLowerCase() || ""
TitleLower(s) == IF s.title = Null THEN <<>> ELSE ToLowerCase(s.title)

\* Mutant of MatchesQuery: the repository string is not searched.
MatchesTitleOnly(s, q) ==
    IF q = <<>> THEN TRUE ELSE Includes(TitleLower(s), ToLowerCase(q))

\* Lines 54-60: the filter callback.
MatchesQuery(s, q) ==
    IF q = <<>>
      THEN TRUE
      ELSE \/ Includes(TitleLower(s), ToLowerCase(q))
           \/ Includes(ToLowerCase(RepoString(s)), ToLowerCase(q))

\* Lines 64-65: a.updatedAt || a.createdAt  (0 is falsy)
SortTime(s) == IF s.updatedAt # 0 THEN s.updatedAt ELSE s.createdAt

\* Mutant of CompareSessions: ascending order.
CompareAscending(a, b) == SortTime(a) - SortTime(b)

\* Lines 63-67: the comparator; negative when a sorts before b.
CompareSessions(a, b) == SortTime(b) - SortTime(a)

\* Array.prototype.sort is stable: x goes before the first element that the
\* comparator puts strictly after it.
InsertSorted(sorted, x) ==
    LET later == {k \in 1..Len(sorted) : CompareSessions(x, sorted[k]) < 0}
    IN  IF later = {}
          THEN Append(sorted, x)
          ELSE LET k == CHOOSE m \in later : \A n \in later : m <= n
               IN  SubSeq(sorted, 1, k - 1) \o <<x>> \o SubSeq(sorted, k, Len(sorted))

RECURSIVE SortSessions(_)
SortSessions(seq) ==
    IF seq = <<>>
      THEN <<>>
      ELSE InsertSorted(SortSessions(SubSeq(seq, 1, Len(seq) - 1)), seq[Len(seq)])

\* isInactiveSession of @/lib/time: older than a fixed staleness threshold.
Now == 10
InactiveThreshold == 5
IsInactiveSession(timestamp) == Now - timestamp > InactiveThreshold

FilterSessions(S, q) == SelectSeq(S, LAMBDA s : MatchesQuery(s, q))

\* Mutant of PartitionTimestamp: createdAt alone decides.
PartitionByCreatedAt(s) == s.createdAt

\* Line 73: session.updatedAt || session.createdAt
PartitionTimestamp(s) == IF s.updatedAt # 0 THEN s.updatedAt ELSE s.createdAt

\* Lines 74-78: the branch of the partition loop.
IsInactive(s) == IsInactiveSession(PartitionTimestamp(s))
IsActive(s) == ~IsInactive(s)

\* Lines 53-82: the useMemo body.
Reconcile(S, q) ==
    LET sorted == SortSessions(FilterSessions(S, q))
    IN  [activeSessions |-> SelectSeq(sorted, IsActive),
         inactiveSessions |-> SelectSeq(sorted, IsInactive)]

\* Mutant of DisplayTitle: only a null title falls back (?? instead of ||).
DisplayTitleNullish(s) == IF s.title # Null THEN s.title ELSE RepoString(s)

\* Line 194: session.title || `${session.repoOwner}/${session.repoName}`
DisplayTitle(s) ==
    IF s.title # Null /\ s.title # <<>> THEN s.title ELSE RepoString(s)

\* Line 192: the timestamp SessionListItem formats.
DisplayTimestamp(s) == IF s.updatedAt # 0 THEN s.updatedAt ELSE s.createdAt

\* The sessions a response can carry: a title (null, empty or text), a
\* repository and a pair of timestamps (updatedAt 0 = not set).
Titles == {Null, <<>>, <<"A", "b">>}
RepoTimes ==
    { [repoOwner |-> <<"a">>, repoName |-> <<"b">>, updatedAt |-> 0, createdAt |-> 7],
      [repoOwner |-> <<"B">>, repoName |-> <<"a">>, updatedAt |-> 7, createdAt |-> 1],
      [repoOwner |-> <<"a">>, repoName |-> <<"b">>, updatedAt |-> 9, createdAt |-> 3],
      [repoOwner |-> <<"a">>, repoName |-> <<"b">>, updatedAt |-> 3, createdAt |-> 9] }

SessionShapes == Titles \X RepoTimes

MakeSession(i, shape) ==
    [id |-> i, title |-> shape[1], repoOwner |-> shape[2].repoOwner,
     repoName |-> shape[2].repoName, status |-> "running",
     createdAt |-> shape[2].createdAt, updatedAt |-> shape[2].updatedAt]

SessionLists ==
    UNION { { [i \in 1..n |-> MakeSession(i, f[i])] : f \in [1..n -> SessionShapes] }
            : n \in 0..MaxSessions }

Queries == {<<>>, <<"a", "b">>, <<"/", "B">>, <<"b", "/">>, <<"x">>}

Memo(S, q) ==
    /\ activeSessions' = Reconcile(S, q).activeSessions
    /\ inactiveSessions' = Reconcile(S, q).inactiveSessions

\* Lines 31-38: the effect starts fetchSessions.
FetchSessions ==
    /\ loading = FALSE
    /\ loading' = TRUE
    /\ UNCHANGED <<sessions, searchQuery, activeSessions, inactiveSessions,
                   serverSessions, deleteVars, formVars>>

\* Lines 41-44 and 48: an ok response; data.sessions || [].
FetchSessionsOk(hasList) ==
    /\ loading = TRUE
    /\ sessions' = IF hasList THEN serverSessions ELSE <<>>
    /\ Memo(sessions', searchQuery)
    /\ loading' = FALSE
    /\ UNCHANGED <<searchQuery, serverSessions, deleteVars, formVars>>

\* Lines 45-48: a non-ok response or an exception leaves the list alone.
FetchSessionsFail ==
    /\ loading = TRUE
    /\ loading' = FALSE
    /\ UNCHANGED <<sessions, searchQuery, activeSessions, inactiveSessions,
                   serverSessions, deleteVars, formVars>>

\* Line 141: the search box.
SetSearchQuery(q) ==
    /\ q # searchQuery
    /\ searchQuery' = q
    /\ Memo(sessions, q)
    /\ UNCHANGED <<sessions, loading, serverSessions, deleteVars, formVars>>

InitSidebar ==
    /\ serverSessions \in SessionLists
    /\ sessions = <<>>
    /\ loading = FALSE
    /\ searchQuery = <<>>
    /\ activeSessions = <<>>
    /\ inactiveSessions = <<>>

NextSidebar ==
    \/ FetchSessions
    \/ \E hasList \in BOOLEAN : FetchSessionsOk(hasList)
    \/ FetchSessionsFail
    \/ \E q \in Queries : SetSearchQuery(q)

(***************************************************************************)
(* Session creation form  (session/new/page.tsx)                           *)
(***************************************************************************)
\* A value JavaScript leaves undefined.
Undefined == <<"undefined">>

\* Position of the first "/" in s, 0 when there is none.
FirstSlash(s) ==
    IF \E k \in 1..Len(s) : s[k] = "/"
      THEN CHOOSE k \in 1..Len(s) : s[k] = "/" /\ \A m \in 1..(k - 1) : s[m] # "/"
      ELSE 0

\* String.prototype.split("/"): every segment between separators.
RECURSIVE Split(_)
Split(s) ==
    IF FirstSlash(s) = 0
      THEN <<s>>
      ELSE <<SubSeq(s, 1, FirstSlash(s) - 1)>>
             \o Split(SubSeq(s, FirstSlash(s) + 1, Len(s)))

\* Line 73: const [owner, name] = selectedRepo.split("/")
SplitOwner(s) == Split(s)[1]
SplitName(s) == IF Len(Split(s)) >= 2 THEN Split(s)[2] ELSE Undefined

NoTitle == "undefined"

\* Mutant of PostBody: owner and name change places.
PostBodySwapped(repo, t, m) ==
    [repoOwner |-> SplitName(repo), repoName |-> SplitOwner(repo),
     title |-> Or(t, NoTitle), model |-> m]

\* Lines 79-84: the posted body; title || undefined.
PostBody(repo, t, m) ==
    [repoOwner |-> SplitOwner(repo), repoName |-> SplitName(repo),
     title |-> Or(t, NoTitle), model |-> m]

NoBody == [repoOwner |-> Undefined, repoName |-> Undefined,
           title |-> NoTitle, model |-> ""]

\* The option values of the repository select: "" and each repo.fullName.
RepoOptions == { <<>>, <<"a", "/", "b">>, <<"c", "/", "d", "/", "e">> }
TitleInputs == {"", "Fix login"}
DefaultModel == "claude-haiku-4-5"

\* Responses to POST /api/sessions: res.ok, whether res.json() parses, and the
\* error and sessionId fields of the parsed body ("" = field missing or empty).
PostResponses ==
    { [ok |-> TRUE,  parses |-> TRUE,  error |-> "", sessionId |-> "s1"],
      [ok |-> TRUE,  parses |-> FALSE, error |-> "", sessionId |-> ""],
      [ok |-> FALSE, parses |-> TRUE,  error |-> "Repository not found", sessionId |-> ""],
      [ok |-> FALSE, parses |-> TRUE,  error |-> "", sessionId |-> ""],
      [ok |-> FALSE, parses |-> FALSE, error |-> "", sessionId |-> ""] }

NoPostResponse == [ok |-> FALSE, parses |-> FALSE, error |-> "", sessionId |-> "none"]

IdleSubmit == [pc |-> "idle", res |-> NoPostResponse]

NoRoute == ""
SessionRoute(id) == <<"/session/", id>>

\* Lines 195 and 224: the controlled inputs.
SetSelectedRepo(v) ==
    /\ v # selectedRepo
    /\ selectedRepo' = v
    /\ UNCHANGED <<title, selectedModel, error, creating, route, freq, lastBody,
                   deleteVars, sidebarVars>>

SetTitle(v) ==
    /\ v # title
    /\ title' = v
    /\ UNCHANGED <<selectedRepo, selectedModel, error, creating, route, freq, lastBody,
                   deleteVars, sidebarVars>>

\* Mutant of SubmitRejected: the early return is missing, the request goes out.
SubmitWithoutReturn ==
    /\ selectedRepo = <<>>
    /\ \E i \in 1..MaxInFlight :
         /\ freq[i].pc = "idle"
         /\ \A j \in 1..(i - 1) : freq[j].pc # "idle"
         /\ freq' = [freq EXCEPT ![i].pc = "fetch"]
    /\ creating' = TRUE
    /\ error' = ""
    /\ lastBody' = PostBody(selectedRepo, title, selectedModel)
    /\ UNCHANGED <<selectedRepo, title, selectedModel, route, deleteVars, sidebarVars>>

\* Lines 65-68: handleSubmit with no repository selected.
SubmitRejected ==
    /\ selectedRepo = <<>>
    /\ error' = "Please select a repository"
    /\ UNCHANGED <<selectedRepo, title, selectedModel, creating, route, freq, lastBody,
                   deleteVars, sidebarVars>>

\* Lines 65-85: handleSubmit up to the await of fetch.
SubmitIssued(i) ==
    /\ selectedRepo # <<>>
    /\ freq[i].pc = "idle"
    /\ \A j \in 1..(i - 1) : freq[j].pc # "idle"
    /\ creating' = TRUE
    /\ error' = ""
    /\ lastBody' = PostBody(selectedRepo, title, selectedModel)
    /\ freq' = [freq EXCEPT ![i].pc = "fetch"]
    /\ UNCHANGED <<selectedRepo, title, selectedModel, route, deleteVars, sidebarVars>>

\* fetch resolves; lines 87-91 await res.json().
PostResolve(i, r) ==
    /\ freq[i].pc = "fetch"
    /\ freq' = [freq EXCEPT ![i].pc = "json", ![i].res = r]
    /\ UNCHANGED <<selectedRepo, title, selectedModel, error, creating, route, lastBody,
                   deleteVars, sidebarVars>>

\* fetch rejects: lines 94-98.
PostReject(i) ==
    /\ freq[i].pc = "fetch"
    /\ error' = "Failed to create session"
    /\ creating' = FALSE
    /\ freq' = [freq EXCEPT ![i] = IdleSubmit]
    /\ UNCHANGED <<selectedRepo, title, selectedModel, route, lastBody,
                   deleteVars, sidebarVars>>

\* Lines 92 and 95: the message shown for a response that is not a success.
FailureMessage(r) ==
    IF r.parses /\ ~r.ok THEN Or(r.error, "Failed to create session")
                         ELSE "Failed to create session"

\* Mutant of PostSettle: no finally block, creating is reset on success only.
PostSettleNoFinally(i) ==
    /\ freq[i].pc = "json"
    /\ IF freq[i].res.ok /\ freq[i].res.parses
         THEN /\ route' = SessionRoute(freq[i].res.sessionId)
              /\ error' = error
              /\ creating' = FALSE
         ELSE /\ error' = FailureMessage(freq[i].res)
              /\ route' = route
              /\ creating' = creating
    /\ freq' = [freq EXCEPT ![i] = IdleSubmit]
    /\ UNCHANGED <<selectedRepo, title, selectedModel, lastBody, deleteVars, sidebarVars>>

\* res.json() settles: lines 88-98.
PostSettle(i) ==
    /\ freq[i].pc = "json"
    /\ IF freq[i].res.ok /\ freq[i].res.parses
         THEN /\ route' = SessionRoute(freq[i].res.sessionId)
              /\ error' = error
         ELSE /\ error' = FailureMessage(freq[i].res)
              /\ route' = route
    /\ creating' = FALSE
    /\ freq' = [freq EXCEPT ![i] = IdleSubmit]
    /\ UNCHANGED <<selectedRepo, title, selectedModel, lastBody, deleteVars, sidebarVars>>

InitForm ==
    /\ selectedRepo = <<>>
    /\ title = ""
    /\ selectedModel = DefaultModel
    /\ error = ""
    /\ creating = FALSE
    /\ route = <<NoRoute, "">>
    /\ freq = [i \in 1..MaxInFlight |-> IdleSubmit]
    /\ lastBody = NoBody

NextForm ==
    \/ \E v \in RepoOptions : SetSelectedRepo(v)
    \/ \E v \in TitleInputs : SetTitle(v)
    \/ SubmitRejected
    \/ \E i \in 1..MaxInFlight : SubmitIssued(i)
    \/ \E i \in 1..MaxInFlight : \E r \in PostResponses : PostResolve(i, r)
    \/ \E i \in 1..MaxInFlight : PostReject(i)
    \/ \E i \in 1..MaxInFlight : PostSettle(i)

\* Mutant of SubmitDisabled: the button is disabled for a missing repository
\* only, not while a request is being made.
SubmitDisabledNoRepoOnly == selectedRepo = <<>>

\* Line 257: disabled={creating || !selectedRepo}
SubmitDisabled == creating \/ selectedRepo = <<>>

\* Lines 182 and 255-261: a click on the enabled submit button submits the
\* form, which calls handleSubmit.
ClickSubmit(i) ==
    /\ ~SubmitDisabled
    /\ SubmitIssued(i)

\* The form driven through its controls: submissions come from the button.
NextFormUI ==
    \/ \E v \in RepoOptions : SetSelectedRepo(v)
    \/ \E v \in TitleInputs : SetTitle(v)
    \/ \E i \in 1..MaxInFlight : ClickSubmit(i)
    \/ \E i \in 1..MaxInFlight : \E r \in PostResponses : PostResolve(i, r)
    \/ \E i \in 1..MaxInFlight : PostReject(i)
    \/ \E i \in 1..MaxInFlight : PostSettle(i)

(***************************************************************************)
(* Specifications: one per component; the other components stay put.       *)
(***************************************************************************)
RestSidebar ==
    /\ serverSessions = <<>>
    /\ sessions = <<>>
    /\ loading = FALSE
    /\ searchQuery = <<>>
    /\ activeSessions = <<>>
    /\ inactiveSessions = <<>>

InitDeleteSpec == InitDelete /\ RestSidebar /\ InitForm
SpecDelete == InitDeleteSpec /\ [][NextDelete]_vars

InitSidebarSpec == InitDelete /\ InitSidebar /\ InitForm
SpecSidebar == InitSidebarSpec /\ [][NextSidebar]_vars

InitFormSpec == InitDelete /\ RestSidebar /\ InitForm
SpecForm == InitFormSpec /\ [][NextForm]_vars

\* fetch and res.json() settle: every request awaiting them is resumed.
FairForm ==
    \A i \in 1..MaxInFlight :
        /\ WF_vars(\E r \in PostResponses : PostResolve(i, r))
        /\ WF_vars(PostReject(i) \/ PostSettle(i))

FairSpecForm == SpecForm /\ FairForm

InitFormUISpec == InitDelete /\ RestSidebar /\ InitForm
SpecFormUI == InitFormUISpec /\ [][NextFormUI]_vars

(***************************************************************************)
(* Properties of the DELETE handler, stated of SpecDelete.                 *)
(***************************************************************************)
\* A request whose session check has been made.
Checked(i) == dreq[i].pc \in {"fetch", "body", "done"}

HasToken(i) == dreq[i].session.present /\ dreq[i].session.accessToken # ""

\* C1: a DELETE whose server session is absent or has no accessToken is answered
\* 401 {"error":"Unauthorized"} and never calls controlPlaneFetch.
C1_UnauthorizedNoCall ==
    \A i \in 1..MaxDeletes :
        (Checked(i) /\ ~HasToken(i)) =>
            /\ dreq[i].pc = "done"
            /\ dreq[i].response = [status |-> 401, body |-> <<"error", "Unauthorized">>]
            /\ dreq[i].calls = 0
            /\ dreq[i].path = ""

\* Two requests answered: one with no session at all, one with a session that
\* carries no accessToken.
C1_Witness ==
    \E i, j \in 1..MaxDeletes :
        /\ dreq[i].pc = "done" /\ ~dreq[i].session.present
        /\ dreq[j].pc = "done" /\ dreq[j].session.present
        /\ dreq[j].session.accessToken = ""
        /\ dreq[j].response.status = 401

Threw(i) ==
    /\ dreq[i].pc = "done"
    /\ dreq[i].calls = 1
    /\ \/ dreq[i].upstream = NoUpstream
       \/ /\ dreq[i].upstream.status \in 200..299
          /\ dreq[i].upstream.body \notin ValidJson

\* C9: an authenticated DELETE in which the control-plane call or the reading
\* of its response throws is answered 500 {error: "Failed to delete session"},
\* with nothing of the cause in the response.
C9_TransportErrorGeneric ==
    \A i \in 1..MaxDeletes :
        Threw(i) =>
            dreq[i].response =
                [status |-> 500, body |-> <<"error", "Failed to delete session">>]

\* One request whose fetch was rejected, one whose ok response did not parse.
C9_Witness ==
    \E i, j \in 1..MaxDeletes :
        /\ Threw(i) /\ dreq[i].upstream = NoUpstream
        /\ Threw(j) /\ dreq[j].upstream = [status |-> 200, body |-> "not found"]

(***************************************************************************)
(* Properties of the session list reconciler, stated of SpecSidebar.       *)
(***************************************************************************)
Range(seq) == {seq[k] : k \in 1..Len(seq)}

\* The sessions the sidebar renders, in either list.
Rendered == Range(activeSessions) \cup Range(inactiveSessions)

\* The filter as the specification words it.
PassesFilter(s) ==
    \/ searchQuery = <<>>
    \/ s.title # Null /\ Includes(ToLowerCase(s.title), ToLowerCase(searchQuery))
    \/ Includes(ToLowerCase(s.repoOwner \o <<"/">> \o s.repoName),
                ToLowerCase(searchQuery))

\* C2: activeSessions and inactiveSessions together hold exactly the sessions
\* that pass the filter: none gained, dropped or duplicated, none in both.
C2_ExactlyTheFiltered ==
    /\ Rendered = {s \in Range(sessions) : PassesFilter(s)}
    /\ Len(activeSessions) + Len(inactiveSessions) = Cardinality(Rendered)
    /\ Range(activeSessions) \cap Range(inactiveSessions) = {}

\* A query that keeps one session by its title, one by its repository only,
\* and drops a third; both lists are in use.
C2_Witness ==
    /\ searchQuery # <<>>
    /\ Len(sessions) = 3
    /\ Cardinality(Rendered) = 2
    /\ activeSessions # <<>>
    /\ inactiveSessions # <<>>
    /\ \E s \in Rendered :
         /\ s.title = Null
         /\ Includes(ToLowerCase(s.repoOwner \o <<"/">> \o s.repoName),
                     ToLowerCase(searchQuery))

\* updatedAt if present, else createdAt.
EffectiveTimestamp(s) == IF s.updatedAt # 0 THEN s.updatedAt ELSE s.createdAt

\* Position of a session in the input collection.
InputIndex(s) == CHOOSE k \in 1..Len(sessions) : sessions[k] = s

\* Descending by effective timestamp, input order among equals.
OrderedList(seq) ==
    \A j, k \in 1..Len(seq) :
        j < k =>
            \/ EffectiveTimestamp(seq[j]) > EffectiveTimestamp(seq[k])
            \/ /\ EffectiveTimestamp(seq[j]) = EffectiveTimestamp(seq[k])
               /\ InputIndex(seq[j]) < InputIndex(seq[k])

\* C6: each list is ordered by non-increasing effective timestamp, and sessions
\* of equal effective timestamp keep their input order.
C6_SortedStable ==
    /\ OrderedList(activeSessions)
    /\ OrderedList(inactiveSessions)

\* Three active sessions given out of order, two of them with equal effective
\* timestamps taken from different fields.
C6_Witness ==
    /\ Len(activeSessions) = 3
    /\ EffectiveTimestamp(sessions[1]) < EffectiveTimestamp(sessions[2])
    /\ EffectiveTimestamp(activeSessions[1]) > EffectiveTimestamp(activeSessions[2])
    /\ EffectiveTimestamp(activeSessions[2]) = EffectiveTimestamp(activeSessions[3])
    /\ activeSessions[2].updatedAt # activeSessions[3].updatedAt

\* C7: a rendered session is in inactiveSessions iff isInactiveSession holds of
\* its effective timestamp (updatedAt if present, else createdAt); the same
\* timestamp is displayed and sorted by, and sessions of equal effective
\* timestamp are classified alike.
C7_PartitionByEffectiveTimestamp ==
    /\ \A s \in Rendered :
         /\ (s \in Range(inactiveSessions)) <=> IsInactiveSession(EffectiveTimestamp(s))
         /\ (s \in Range(activeSessions)) <=> ~IsInactiveSession(EffectiveTimestamp(s))
         /\ DisplayTimestamp(s) = EffectiveTimestamp(s)
         /\ SortTime(s) = EffectiveTimestamp(s)
    /\ \A s, t \in Rendered :
         EffectiveTimestamp(s) = EffectiveTimestamp(t) =>
             ((s \in Range(inactiveSessions)) <=> (t \in Range(inactiveSessions)))

\* An active session whose createdAt alone is stale, an active one with no
\* updatedAt, and an inactive one whose createdAt is recent, under a query.
C7_Witness ==
    /\ searchQuery # <<>>
    /\ \E s \in Range(activeSessions) :
         s.updatedAt # 0 /\ IsInactiveSession(s.createdAt)
    /\ \E s \in Range(activeSessions) : s.updatedAt = 0
    /\ \E s \in Range(inactiveSessions) :
         s.updatedAt # 0 /\ ~IsInactiveSession(s.createdAt)

\* C8: the display title of a rendered session is never empty: the title when
\* there is one, otherwise exactly repoOwner/repoName.
C8_DisplayTitleNeverBlank ==
    \A s \in Rendered :
        /\ DisplayTitle(s) # <<>>
        /\ (s.title # Null /\ s.title # <<>>) => DisplayTitle(s) = s.title
        /\ (s.title = Null \/ s.title = <<>>) =>
               DisplayTitle(s) = s.repoOwner \o <<"/">> \o s.repoName

\* Rendered together: a null title, an empty title and a title with text.
C8_Witness ==
    /\ \E s \in Rendered : s.title = Null /\ DisplayTitle(s) = <<"a", "/", "b">>
    /\ \E s \in Rendered : s.title = <<>> /\ DisplayTitle(s) = <<"B", "/", "a">>
    /\ searchQuery = <<>>
    /\ \E s \in Rendered : DisplayTitle(s) = <<"A", "b">>

(***************************************************************************)
(* Properties of the creation form, stated of SpecForm (C5 of              *)
(* FairSpecForm).                                                          *)
(***************************************************************************)
\* This step sends a POST /api/sessions.
IssuesRequest == \E i \in 1..MaxInFlight : freq[i].pc = "idle" /\ freq'[i].pc = "fetch"

\* This step is a handleSubmit call that showed a message and sent nothing.
RejectsSubmit == selectedRepo = <<>> /\ error' # error /\ freq' = freq

\* C3 as stated: a submission with no repository selected sends no request,
\* shows 'Please select a repository' and leaves creating false.
C3_Original ==
    [][selectedRepo = <<>> =>
          /\ ~IssuesRequest
          /\ lastBody' = lastBody
          /\ RejectsSubmit =>
                 /\ error' = "Please select a repository"
                 /\ creating' = FALSE]_vars

\* C3 (amended): a submission with no repository selected sends no request,
\* shows 'Please select a repository' and leaves creating as it was.
C3_NoRepoNoRequest ==
    [][selectedRepo = <<>> =>
          /\ ~IssuesRequest
          /\ lastBody' = lastBody
          /\ RejectsSubmit =>
                 /\ error' = "Please select a repository"
                 /\ creating' = creating
                 /\ route' = route]_vars

\* A submission was rejected while an earlier request was still awaited.
C3_Witness ==
    /\ selectedRepo = <<>>
    /\ error = "Please select a repository"
    /\ creating = TRUE
    /\ \E i \in 1..MaxInFlight : freq[i].pc = "fetch"

\* Request i is answered, in this step, by a failure.
FailsNow(i) ==
    \/ freq[i].pc = "fetch" /\ freq'[i].pc = "idle"
    \/ /\ freq[i].pc = "json" /\ freq'[i].pc = "idle"
       /\ ~(freq[i].res.ok /\ freq[i].res.parses)

\* The message a failed request must show.
ExpectedMessage(i) ==
    IF freq[i].pc = "json" /\ ~freq[i].res.ok /\ freq[i].res.parses
       /\ freq[i].res.error # ""
      THEN freq[i].res.error
      ELSE "Failed to create session"

\* The form takes a submission that sends a request.
AcceptsSubmit ==
    \E i \in 1..MaxInFlight :
        /\ freq[i].pc = "idle"
        /\ selectedRepo # <<>> => ENABLED SubmitIssued(i)

\* C5: every request sent is answered; one answered by a failure leaves creating
\* false and a non-empty error (the server's, else 'Failed to create session'),
\* does not navigate, and the form then accepts another submission.
C5_FailureReturnsToIdle ==
    /\ [][\A i \in 1..MaxInFlight :
            FailsNow(i) =>
                /\ creating' = FALSE
                /\ error' = ExpectedMessage(i)
                /\ error' # ""
                /\ route' = route]_vars
    /\ [](creating = FALSE => AcceptsSubmit)
    /\ \A i \in 1..MaxInFlight : (freq[i].pc # "idle") ~> (freq[i].pc = "idle")

\* A request failed with the server's message; the form is idle, has not
\* navigated and holds a selected repository.
C5_Witness ==
    /\ error = "Repository not found"
    /\ creating = FALSE
    /\ route = <<NoRoute, "">>
    /\ selectedRepo # <<>>
    /\ \A i \in 1..MaxInFlight : freq[i].pc = "idle"

SlashCount(s) == Cardinality({k \in 1..Len(s) : s[k] = "/"})
BeforeSlash(s) == SubSeq(s, 1, FirstSlash(s) - 1)
AfterSlash(s) == SubSeq(s, FirstSlash(s) + 1, Len(s))

\* C10 as stated: repoOwner is the text before the first "/", repoName all the
\* text after it, and owner/name is the selected value again.
C10_Original ==
    [][(IssuesRequest /\ SlashCount(selectedRepo) >= 1) =>
          /\ lastBody'.repoOwner = BeforeSlash(selectedRepo)
          /\ lastBody'.repoName = AfterSlash(selectedRepo)
          /\ lastBody'.repoOwner \o <<"/">> \o lastBody'.repoName = selectedRepo]_vars

\* C10 (amended): repoOwner is the text before the first "/", repoName the text
\* between the first "/" and the next one (or the end); owner/name is the
\* selected value again when it holds exactly one "/".
C10_SplitOwnerName ==
    [][(IssuesRequest /\ SlashCount(selectedRepo) >= 1) =>
          /\ lastBody'.repoOwner = BeforeSlash(selectedRepo)
          /\ lastBody'.repoName =
               IF SlashCount(selectedRepo) = 1
                 THEN AfterSlash(selectedRepo)
                 ELSE BeforeSlash(AfterSlash(selectedRepo))
          /\ SlashCount(selectedRepo) = 1 =>
               lastBody'.repoOwner \o <<"/">> \o lastBody'.repoName = selectedRepo]_vars

\* The request for c/d/e has gone out, with owner c and name d.
C10_Witness ==
    /\ lastBody.repoOwner = <<"c">>
    /\ lastBody.repoName = <<"d">>
    /\ \E i \in 1..MaxInFlight : freq[i].pc = "fetch"

(***************************************************************************)
(* The creation form driven through its submit button, stated of           *)
(* SpecFormUI.                                                             *)
(***************************************************************************)
\* The handleSubmit calls awaiting fetch or res.json().
InFlight == {i \in 1..MaxInFlight : freq[i].pc # "idle"}

Outcome(i) == <<dreq[i].session, dreq[i].calls, dreq[i].upstream>>

\* Request i has been answered.
Answered(i) == dreq[i].response # [status |-> 0, body |-> <<"none", "">>]

\* C12: a DELETE request calls controlPlaneFetch at most once (exactly once
\* when it carries a token), is answered exactly once, at its end and never
\* again, whatever the upstream outcome; a step of one request leaves every
\* other request alone, and requests with the same session and upstream
\* outcome get the same answer.
C12_OneCallOneResponse ==
    /\ [](\A i \in 1..MaxDeletes :
            /\ dreq[i].calls <= 1
            /\ dreq[i].calls = 1 <=> (Checked(i) /\ HasToken(i))
            /\ Answered(i) <=> dreq[i].pc = "done")
    /\ [](\A i, j \in 1..MaxDeletes :
            (Answered(i) /\ Answered(j) /\ Outcome(i) = Outcome(j)) =>
                dreq[i].response = dreq[j].response)
    /\ [][\A i \in 1..MaxDeletes :
            /\ Answered(i) => dreq'[i] = dreq[i]
            /\ dreq'[i] # dreq[i] =>
                 \A j \in 1..MaxDeletes : j # i => dreq'[j] = dreq[j]]_vars

\* Two answered requests, each with one call behind it: one whose call was
\* rejected, one that got an upstream 500; neither was tried again.
C12_Witness ==
    \E i, j \in 1..MaxDeletes :
        /\ dreq[i].pc = "done" /\ dreq[i].calls = 1
        /\ dreq[i].upstream = [status |-> 0, body |-> ""]
        /\ dreq[i].response.status = 500
        /\ dreq[j].pc = "done" /\ dreq[j].calls = 1
        /\ dreq[j].upstream = [status |-> 500, body |-> "not found"]
        /\ dreq[j].response.status = 500

====
